---- MODULE Spec2Model ----
(***************************************************************************)
(* Model of DistributedTracer (src/src/distributed_tracer.py): the trace   *)
(* and span tables, the in-memory open-trace table, the Recorder           *)
(* operations, the trace analysis and the per-service aggregation.         *)
(***************************************************************************)
EXTENDS Integers, Sequences, FiniteSets, TLC

\* ---- bounds of the model ----
\* traces started in a run
MaxTraces == 2
\* spans created in a run
MaxSpans == 2
\* the last instant of the clock, in milliseconds
MaxTime == 1
\* Recorder calls made in a run
MaxCalls == 6
\* threads calling end_trace at once
NumThreads == 2

\* ---- values ----
\* SQL NULL / Python None in a numeric or id position
Null == -1
\* an id no uuid4() call has produced
UnknownId == 0
\* Python None in the query position of end_span
NoQuery == "<None>"

Services == {"X", "Y"}
Operations == {"op"}
Queries == {NoQuery, "", "SELECT"}
RowCounts == {1}
Statuses == {"success", "error"}
Threads == 1..NumThreads

VARIABLES
    traces,         \* table traces: trace_id -> row
    spans,          \* table spans: span_id -> row
    active_traces,  \* self.active_traces: trace_id -> info
    now,            \* the clock read by NOW() and time.time()
    result,         \* what the last call did: operation, arguments, outcome, output
    returned,       \* trace ids start_trace has returned
    closed,         \* trace ids on which an end_trace call has run to its end
    failed,         \* trace ids on which an end_trace call has met a Store error
    updates,        \* per trace id, how many UPDATE traces statements have hit its row
    calls,          \* how many Recorder calls have been made
    pc,             \* per thread, its position inside end_trace
    frame           \* per thread, the arguments and locals of its end_trace call

vars == <<traces, spans, active_traces, now, result, returned, closed, failed, updates,
          calls, pc, frame>>

IdleFrame == [trace_id |-> Null, status |-> "", duration |-> Null, outcome |-> "none"]

\* the frame of a call that has returned: its locals are gone
Returned(outcome) == [IdleFrame EXCEPT !.outcome = outcome]

Init ==
    /\ traces = <<>>
    /\ spans = <<>>
    /\ active_traces = <<>>
    /\ now = 0
    /\ result = [op |-> "init"]
    /\ returned = {}
    /\ closed = {}
    /\ failed = {}
    /\ updates = <<>>
    /\ calls = 0
    /\ pc = [th \in Threads |-> "idle"]
    /\ frame = [th \in Threads |-> IdleFrame]

\* ---- helpers ----
Put(f, k, v) == [x \in (DOMAIN f) \cup {k} |-> IF x = k THEN v ELSE f[x]]
Remove(f, k) == [x \in (DOMAIN f) \ {k} |-> f[x]]

\* uuid.uuid4(): a value no earlier call has produced
FreshTraceId == Cardinality(DOMAIN traces) + 1
FreshSpanId == Cardinality(DOMAIN spans) + 1

\* time passes
Tick ==
    /\ now < MaxTime
    /\ now' = now + 1
    /\ result' = [op |-> "tick"]
    /\ UNCHANGED <<traces, spans, active_traces, returned, failed, closed, updates, pc, frame>>

\* ---- Recorder: start_trace ----
NewTraceRow(service_name, operation_name) ==
    [service_name |-> service_name, operation_name |-> operation_name,
     start_time |-> now, end_time |-> Null, duration_ms |-> Null,
     status |-> "in_progress"]

NewTraceInfo(service_name, operation_name) ==
    [service |-> service_name, operation |-> operation_name, start_time |-> now]

start_trace(service_name, operation_name) ==
    /\ FreshTraceId <= MaxTraces
    /\ LET trace_id == FreshTraceId IN
        /\ traces' = Put(traces, trace_id, NewTraceRow(service_name, operation_name))
        /\ updates' = Put(updates, trace_id, 0)
        /\ active_traces' = Put(active_traces, trace_id,
                                NewTraceInfo(service_name, operation_name))
        /\ returned' = returned \cup {trace_id}
        /\ result' = [op |-> "start_trace", id |-> trace_id, outcome |-> "ok"]
    /\ UNCHANGED <<spans, now, closed, failed, pc, frame>>

\* ---- Recorder: end_trace ----
\* line 98: trace_id not in self.active_traces
NotActive_Stored(trace_id) == trace_id \notin DOMAIN traces
NotActive(trace_id) == trace_id \notin DOMAIN active_traces

\* lines 102 and 113: self.active_traces[trace_id] raises KeyError on a missing key
HasKey(trace_id) == trace_id \in DOMAIN active_traces

\* line 103: (time.time() - trace_info['start_time']) * 1000
Duration_Reversed(trace_info) == trace_info.start_time - now
Duration(trace_info) == now - trace_info.start_time

\* lines 106-110: UPDATE traces SET ... WHERE trace_id = %s
UpdateTraces_NoWhere(trace_id, duration, status) ==
    [t \in DOMAIN traces |->
        [traces[t] EXCEPT !.end_time = now, !.duration_ms = duration, !.status = status]]
UpdateTraces(trace_id, duration, status) ==
    [t \in DOMAIN traces |->
        IF t = trace_id
        THEN [traces[t] EXCEPT !.end_time = now, !.duration_ms = duration,
                               !.status = status]
        ELSE traces[t]]

\* one more UPDATE statement has hit the row of trace_id
CountUpdate(trace_id) ==
    [t \in DOMAIN updates |-> IF t = trace_id THEN updates[t] + 1 ELSE updates[t]]

\* line 113: del self.active_traces[trace_id]
DelActive_Keep(trace_id) == active_traces
DelActive_Clear(trace_id) == <<>>
DelActive(trace_id) == Remove(active_traces, trace_id)

end_trace(trace_id, status) ==
    /\ IF NotActive(trace_id)
       THEN /\ result' = [op |-> "end_trace", id |-> trace_id, outcome |-> "NotFound"]
            /\ UNCHANGED <<traces, active_traces, updates, closed>>
       ELSE IF ~HasKey(trace_id)
       THEN /\ result' = [op |-> "end_trace", id |-> trace_id, outcome |-> "KeyError"]
            /\ UNCHANGED <<traces, active_traces, updates, closed>>
       ELSE /\ traces' = UpdateTraces(trace_id, Duration(active_traces[trace_id]), status)
            /\ updates' = CountUpdate(trace_id)
            /\ active_traces' = DelActive(trace_id)
            /\ closed' = closed \cup {trace_id}
            /\ result' = [op |-> "end_trace", id |-> trace_id, outcome |-> "ok"]
    /\ UNCHANGED <<spans, now, returned, failed, pc, frame>>

\* ---- Recorder: start_trace and end_trace when the Store statement fails ----
\* line 80: cursor.execute raises; lines 85-94 are not reached
start_trace_StoreUnavailable(service_name, operation_name) ==
    /\ result' = [op |-> "start_trace", id |-> Null, outcome |-> "StoreUnavailable"]
    /\ UNCHANGED <<traces, spans, active_traces, now, returned, closed, failed, updates,
                   pc, frame>>

\* line 106: cursor.execute raises; line 113 is not reached
ActiveOnStoreError_Deleted(trace_id) == Remove(active_traces, trace_id)
ActiveOnStoreError(trace_id) == active_traces

end_trace_StoreUnavailable(trace_id, status) ==
    /\ IF NotActive(trace_id)
       THEN /\ result' = [op |-> "end_trace", id |-> trace_id, outcome |-> "NotFound"]
            /\ UNCHANGED <<active_traces, failed>>
       ELSE IF ~HasKey(trace_id)
       THEN /\ result' = [op |-> "end_trace", id |-> trace_id, outcome |-> "KeyError"]
            /\ UNCHANGED <<active_traces, failed>>
       ELSE /\ active_traces' = ActiveOnStoreError(trace_id)
            /\ failed' = failed \cup {trace_id}
            /\ result' = [op |-> "end_trace", id |-> trace_id,
                          outcome |-> "StoreUnavailable"]
    /\ UNCHANGED <<traces, spans, now, returned, closed, updates, pc, frame>>

\* ---- Recorder: create_span ----
NewSpanRow(trace_id, service_name, operation_name, parent_span_id) ==
    [trace_id |-> trace_id, parent_span_id |-> parent_span_id,
     service_name |-> service_name, operation_name |-> operation_name,
     start_time |-> now, end_time |-> Null, duration_ms |-> Null,
     db_query |-> NoQuery, rows_affected |-> Null, status |-> "in_progress"]

\* line 57: trace_id VARCHAR(36) REFERENCES traces(trace_id)
ForeignKeyOk_OpenOnly(trace_id) == trace_id \in DOMAIN active_traces
ForeignKeyOk_None(trace_id) == TRUE
ForeignKeyOk(trace_id) == trace_id \in DOMAIN traces

create_span(trace_id, service_name, operation_name, parent_span_id) ==
    /\ FreshSpanId <= MaxSpans
    /\ LET span_id == FreshSpanId IN
        IF ForeignKeyOk(trace_id)
        THEN /\ spans' = Put(spans, span_id,
                    NewSpanRow(trace_id, service_name, operation_name, parent_span_id))
             /\ result' = [op |-> "create_span", id |-> span_id,
                           trace_id |-> trace_id, parent_span_id |-> parent_span_id,
                           outcome |-> "ok"]
        ELSE /\ result' = [op |-> "create_span", id |-> Null,
                           trace_id |-> trace_id, parent_span_id |-> parent_span_id,
                           outcome |-> "ForeignKeyViolation"]
             /\ UNCHANGED spans
    /\ UNCHANGED <<traces, active_traces, now, returned, failed, closed, updates, pc, frame>>

\* ---- Recorder: end_span ----
\* lines 135-143: UPDATE spans SET ... WHERE span_id = %s
EndedSpanRow(row, query, rows_affected, status) ==
    [row EXCEPT !.end_time = now,
                !.duration_ms = now - row.start_time,
                !.db_query = query,
                !.rows_affected = rows_affected,
                !.status = status]

UpdateSpans_Upsert(span_id, query, rows_affected, status) ==
    Put(spans, span_id,
        EndedSpanRow(IF span_id \in DOMAIN spans THEN spans[span_id]
                     ELSE NewSpanRow(Null, "", "", Null),
                     query, rows_affected, status))
UpdateSpans_NoWhere(span_id, query, rows_affected, status) ==
    [s \in DOMAIN spans |-> EndedSpanRow(spans[s], query, rows_affected, status)]
UpdateSpans(span_id, query, rows_affected, status) ==
    [s \in DOMAIN spans |->
        IF s = span_id
        THEN EndedSpanRow(spans[s], query, rows_affected, status)
        ELSE spans[s]]

\* a variant that also writes the end of the span into the row of its trace
end_span_ClosesTrace(span_id, query, rows_affected, status) ==
    /\ spans' = UpdateSpans(span_id, query, rows_affected, status)
    /\ traces' = IF span_id \in DOMAIN spans
                 THEN UpdateTraces(spans[span_id].trace_id,
                                   now - spans[span_id].start_time, status)
                 ELSE traces
    /\ result' = [op |-> "end_span", id |-> span_id, query |-> query,
                  rows_affected |-> rows_affected, status |-> status,
                  outcome |-> "ok"]
    /\ UNCHANGED <<active_traces, now, returned, failed, closed, updates, pc, frame>>

end_span(span_id, query, rows_affected, status) ==
    /\ spans' = UpdateSpans(span_id, query, rows_affected, status)
    /\ result' = [op |-> "end_span", id |-> span_id, query |-> query,
                  rows_affected |-> rows_affected, status |-> status,
                  outcome |-> "ok"]
    /\ UNCHANGED <<traces, active_traces, now, returned, failed, closed, updates, pc, frame>>

\* ---- Analyzer: analyze_trace ----
\* lines 251-259: the span ids of the trace in an order ORDER BY start_time allows
SpansOf(trace_id) == {s \in DOMAIN spans : spans[s].trace_id = trace_id}

Orderings(S) ==
    {o \in [1..Cardinality(S) -> S] : \A i, j \in DOMAIN o : i # j => o[i] # o[j]}

OrderByStartTime(o) ==
    \A i, j \in DOMAIN o : i < j => spans[o[i]].start_time <= spans[o[j]].start_time

SelectSpans(trace_id) == {o \in Orderings(SpansOf(trace_id)) : OrderByStartTime(o)}

\* line 282: if query
Truthy_NotNone(query) == query # NoQuery
Truthy(query) == query # NoQuery /\ query # ""

\* lines 271-285: the loop's accumulation of total_db_time
RECURSIVE TotalDbTime(_)
TotalDbTime(rows) ==
    IF rows = <<>> THEN 0
    ELSE LET span == spans[Head(rows)] IN
         (IF Truthy(span.db_query) THEN span.duration_ms ELSE 0) + TotalDbTime(Tail(rows))

\* line 289: a quotient, kept exact as numerator and denominator
DbPercentage(total_db_time, duration) ==
    IF duration > 0 THEN [num |-> total_db_time * 100, den |-> duration]
    ELSE [num |-> 0, den |-> 1]

\* line 295: duration - total_db_time
NonDbTime(total_db_time, duration) == duration - total_db_time

\* line 298: max(spans, key=lambda x: x[4]) keeps the first of the largest
RECURSIVE MaxFrom_Last(_, _)
MaxFrom_Last(best, rows) ==
    IF rows = <<>> THEN best
    ELSE IF spans[Head(rows)].duration_ms >= spans[best].duration_ms
         THEN MaxFrom_Last(Head(rows), Tail(rows))
         ELSE MaxFrom_Last(best, Tail(rows))

RECURSIVE MaxFrom(_, _)
MaxFrom(best, rows) ==
    IF rows = <<>> THEN best
    ELSE IF spans[Head(rows)].duration_ms > spans[best].duration_ms
         THEN MaxFrom(Head(rows), Tail(rows))
         ELSE MaxFrom(best, Tail(rows))

SlowestSpan(rows) == MaxFrom(Head(rows), Tail(rows))

\* lines 235-241: the rows SELECT ... FROM traces WHERE trace_id = %s finds
FetchOne(trace_id) == {traces[t] : t \in (DOMAIN traces) \cap {trace_id}}

\* line 243: if not trace_info
NoTraceInfo_Never(trace_info) == FALSE
NoTraceInfo(trace_info) == trace_info = {}

\* the outcome of analyze_trace(trace_id) when the span query returned rows
AnalyzeOutcome(trace_id, rows) ==
    LET trace_info == FetchOne(trace_id) IN
    IF NoTraceInfo(trace_info)
    THEN [op |-> "analyze_trace", id |-> trace_id, rows |-> <<>>,
          outcome |-> "NotFound", line |-> 246]
    ELSE IF trace_info = {}
    THEN [op |-> "analyze_trace", id |-> trace_id, rows |-> <<>>,
          outcome |-> "TypeError", line |-> 248]
    ELSE LET duration == traces[trace_id].duration_ms IN
    IF duration = Null
    THEN [op |-> "analyze_trace", id |-> trace_id, rows |-> rows,
          outcome |-> "TypeError", line |-> 267]
    ELSE IF \E i \in DOMAIN rows : spans[rows[i]].duration_ms = Null
    THEN [op |-> "analyze_trace", id |-> trace_id, rows |-> rows,
          outcome |-> "TypeError", line |-> 280]
    ELSE LET total_db_time == TotalDbTime(rows)
             metrics == [total_db_time |-> total_db_time,
                         db_percentage |-> DbPercentage(total_db_time, duration),
                         non_db_time |-> NonDbTime(total_db_time, duration)] IN
    IF rows = <<>>
    THEN [op |-> "analyze_trace", id |-> trace_id, rows |-> rows,
          outcome |-> "ValueError", line |-> 298, metrics |-> metrics]
    ELSE [op |-> "analyze_trace", id |-> trace_id, rows |-> rows,
          outcome |-> "ok", line |-> 304, metrics |-> metrics,
          slowest_span |-> SlowestSpan(rows)]

analyze_trace(trace_id) ==
    /\ \E rows \in SelectSpans(trace_id) : result' = AnalyzeOutcome(trace_id, rows)
    /\ UNCHANGED <<traces, spans, active_traces, now, returned, failed, closed, updates, pc, frame>>

\* ---- Aggregator: get_service_performance ----
\* line 318: GROUP BY service_name
ServiceNames == {spans[s].service_name : s \in DOMAIN spans}

SpansOfService(service_name) ==
    {s \in DOMAIN spans : spans[s].service_name = service_name}

\* AVG, MAX and MIN skip the rows whose duration_ms is NULL
WithDuration(S) == {s \in S : spans[s].duration_ms # Null}

RECURSIVE SumDuration(_)
SumDuration(S) ==
    IF S = {} THEN 0
    ELSE LET s == CHOOSE x \in S : TRUE IN
         spans[s].duration_ms + SumDuration(S \ {s})

\* line 314: AVG(duration_ms), exact as sum and count; den = 0 stands for NULL
Avg(S) ==
    IF WithDuration(S) = {} THEN [num |-> 0, den |-> 0]
    ELSE [num |-> SumDuration(WithDuration(S)), den |-> Cardinality(WithDuration(S))]

\* line 315: MAX(duration_ms)
MaxDuration(S) ==
    IF WithDuration(S) = {} THEN Null
    ELSE CHOOSE d \in {spans[s].duration_ms : s \in WithDuration(S)} :
            \A s \in WithDuration(S) : spans[s].duration_ms <= d

\* line 316: MIN(duration_ms)
MinDuration(S) ==
    IF WithDuration(S) = {} THEN Null
    ELSE CHOOSE d \in {spans[s].duration_ms : s \in WithDuration(S)} :
            \A s \in WithDuration(S) : spans[s].duration_ms >= d

\* lines 312-316: the row of one group; COUNT(*) counts every row of the group
ServiceRow(service_name) ==
    LET S == SpansOfService(service_name) IN
    [service_name |-> service_name,
     span_count |-> Cardinality(S),
     avg_duration |-> Avg(S),
     max_duration |-> MaxDuration(S),
     min_duration |-> MinDuration(S)]

AvgIsNull(a) == a.den = 0

\* line 319: ORDER BY avg_duration DESC lets a come before b (NULLs sort first)
AvgDescOk(a, b) ==
    IF AvgIsNull(a) THEN TRUE
    ELSE IF AvgIsNull(b) THEN FALSE
    ELSE a.num * b.den >= b.num * a.den

\* lines 310-320: the result sets the query may return
SelectServicePerformance ==
    {[i \in DOMAIN o |-> ServiceRow(o[i])] : o \in
        {o \in Orderings(ServiceNames) :
            \A i, j \in DOMAIN o : i < j =>
                AvgDescOk(ServiceRow(o[i]).avg_duration, ServiceRow(o[j]).avg_duration)}}

\* lines 326-335: the print loop formats avg, max and min with :.2f
FormatRows(rows) ==
    IF \E i \in DOMAIN rows : AvgIsNull(rows[i].avg_duration)
    THEN [op |-> "get_service_performance", rows |-> rows, outcome |-> "TypeError", line |-> 330]
    ELSE [op |-> "get_service_performance", rows |-> rows, outcome |-> "ok", line |-> 335]

get_service_performance ==
    /\ \E rows \in SelectServicePerformance : result' = FormatRows(rows)
    /\ UNCHANGED <<traces, spans, active_traces, now, returned, failed, closed, updates, pc, frame>>

\* ---- end_trace, statement by statement, run by concurrent callers ----
\* line 98: the membership test
ThreadCheck(th, trace_id, status) ==
    /\ pc[th] = "idle"
    /\ IF NotActive(trace_id)
       THEN /\ frame' = [frame EXCEPT ![th] = Returned("NotFound")]
            /\ UNCHANGED pc
       ELSE /\ frame' = [frame EXCEPT ![th] =
                    [trace_id |-> trace_id, status |-> status, duration |-> Null,
                     outcome |-> "running"]]
            /\ pc' = [pc EXCEPT ![th] = "read"]
    /\ UNCHANGED <<traces, spans, active_traces, now, result, returned, failed, closed, updates>>

\* lines 102-103: trace_info = self.active_traces[trace_id]; duration = ...
ThreadRead(th) ==
    /\ pc[th] = "read"
    /\ IF HasKey(frame[th].trace_id)
       THEN /\ frame' = [frame EXCEPT ![th].duration =
                            Duration(active_traces[frame[th].trace_id])]
            /\ pc' = [pc EXCEPT ![th] = "update"]
       ELSE /\ frame' = [frame EXCEPT ![th] = Returned("KeyError")]
            /\ pc' = [pc EXCEPT ![th] = "idle"]
    /\ UNCHANGED <<traces, spans, active_traces, now, result, returned, failed, closed, updates>>

\* lines 105-111: the UPDATE
ThreadUpdate(th) ==
    /\ pc[th] = "update"
    /\ traces' = UpdateTraces(frame[th].trace_id, frame[th].duration, frame[th].status)
    /\ updates' = CountUpdate(frame[th].trace_id)
    /\ pc' = [pc EXCEPT ![th] = "del"]
    /\ UNCHANGED <<spans, active_traces, now, result, returned, failed, closed, frame>>

\* line 113: del self.active_traces[trace_id]
ThreadDel(th) ==
    /\ pc[th] = "del"
    /\ IF HasKey(frame[th].trace_id)
       THEN /\ active_traces' = DelActive(frame[th].trace_id)
            /\ closed' = closed \cup {frame[th].trace_id}
            /\ frame' = [frame EXCEPT ![th] = Returned("ok")]
       ELSE /\ frame' = [frame EXCEPT ![th] = Returned("KeyError")]
            /\ UNCHANGED <<active_traces, closed>>
    /\ pc' = [pc EXCEPT ![th] = "idle"]
    /\ UNCHANGED <<traces, spans, now, result, returned, failed, updates>>

\* ---- start_trace, statement by statement, run by concurrent callers ----
\* lines 77-85: the id and the INSERT
ThreadInsert(th, service_name, operation_name) ==
    /\ pc[th] = "idle"
    /\ FreshTraceId <= MaxTraces
    /\ traces' = Put(traces, FreshTraceId, NewTraceRow(service_name, operation_name))
    /\ updates' = Put(updates, FreshTraceId, 0)
    /\ frame' = [frame EXCEPT ![th] =
                    [trace_id |-> FreshTraceId, status |-> "in_progress",
                     duration |-> Null, outcome |-> "running"]]
    /\ pc' = [pc EXCEPT ![th] = "register"]
    /\ UNCHANGED <<spans, active_traces, now, result, returned, closed, failed>>

\* lines 87-94: the entry of the open-trace table and the return
ThreadRegister(th) ==
    /\ pc[th] = "register"
    /\ active_traces' = Put(active_traces, frame[th].trace_id,
                            NewTraceInfo(traces[frame[th].trace_id].service_name,
                                         traces[frame[th].trace_id].operation_name))
    /\ returned' = returned \cup {frame[th].trace_id}
    /\ frame' = [frame EXCEPT ![th] = Returned("ok")]
    /\ pc' = [pc EXCEPT ![th] = "idle"]
    /\ UNCHANGED <<traces, spans, now, result, closed, failed, updates>>

\* ---- inputs ----
TraceIdArgs == (DOMAIN traces) \cup {UnknownId}
SpanIdArgs == (DOMAIN spans) \cup {UnknownId}
ParentArgs == (DOMAIN spans) \cup {Null, UnknownId}

\* a Recorder call, counted against the length of the run
Call(A) == calls < MaxCalls /\ calls' = calls + 1 /\ A
\* a step that is no new Recorder call
Step(A) == A /\ UNCHANGED calls

\* the Recorder, called by one caller at a time: traces ended with either
\* status, spans linked to any parent
Next ==
    \/ Step(Tick)
    \/ Call(\E o \in Operations : start_trace("X", o))
    \/ Call(\E t \in TraceIdArgs, st \in Statuses : end_trace(t, st))
    \/ Call(\E t \in TraceIdArgs, o \in Operations, p \in ParentArgs :
               create_span(t, "X", o, p))
    \/ Call(\E sp \in SpanIdArgs, r \in RowCounts : end_span(sp, "SELECT", r, "success"))

Spec == Init /\ [][Next]_vars

\* the Recorder feeding the Analyzer: root spans ended with any descriptor
NextAnalyze ==
    \/ Step(Tick)
    \/ Call(\E o \in Operations : start_trace("X", o))
    \/ Call(\E t \in TraceIdArgs : end_trace(t, "success"))
    \/ Call(\E t \in TraceIdArgs, o \in Operations : create_span(t, "X", o, Null))
    \/ Call(\E sp \in SpanIdArgs, q \in Queries, r \in RowCounts :
               end_span(sp, q, r, "success"))
    \/ Step(\E t \in TraceIdArgs : analyze_trace(t))

SpecAnalyze == Init /\ [][NextAnalyze]_vars

\* the Recorder feeding the Aggregator: root spans of either service
NextAggregate ==
    \/ Step(Tick)
    \/ Call(\E o \in Operations : start_trace("X", o))
    \/ Call(\E t \in TraceIdArgs : end_trace(t, "success"))
    \/ Call(\E t \in TraceIdArgs, s \in Services, o \in Operations :
               create_span(t, s, o, Null))
    \/ Call(\E sp \in SpanIdArgs, r \in RowCounts : end_span(sp, "SELECT", r, "success"))
    \/ Step(get_service_performance)

SpecAggregate == Init /\ [][NextAggregate]_vars

\* end_trace called from several threads at once
NextThreads ==
    \/ Step(Tick)
    \/ Call(\E o \in Operations : start_trace("X", o))
    \/ Call(\E th \in Threads, t \in TraceIdArgs, st \in Statuses : ThreadCheck(th, t, st))
    \/ Step(\E th \in Threads : ThreadRead(th))
    \/ Step(\E th \in Threads : ThreadUpdate(th))
    \/ Step(\E th \in Threads : ThreadDel(th))

SpecThreads == Init /\ [][NextThreads]_vars

\* the Recorder with both reports: root spans of one service
NextReports ==
    \/ Step(Tick)
    \/ Call(\E o \in Operations : start_trace("X", o))
    \/ Call(\E t \in TraceIdArgs : end_trace(t, "success"))
    \/ Call(\E t \in TraceIdArgs, o \in Operations : create_span(t, "X", o, Null))
    \/ Call(\E sp \in SpanIdArgs, r \in RowCounts : end_span(sp, "SELECT", r, "success"))
    \/ Step(\E t \in TraceIdArgs : analyze_trace(t))
    \/ Step(get_service_performance)

SpecReports == Init /\ [][NextReports]_vars

\* start_trace and end_trace called from several threads at once
NextConcurrent ==
    \/ Step(Tick)
    \/ Call(\E th \in Threads, o \in Operations : ThreadInsert(th, "X", o))
    \/ Step(\E th \in Threads : ThreadRegister(th))
    \/ Call(\E th \in Threads, t \in TraceIdArgs, st \in Statuses : ThreadCheck(th, t, st))
    \/ Step(\E th \in Threads : ThreadRead(th))
    \/ Step(\E th \in Threads : ThreadUpdate(th))
    \/ Step(\E th \in Threads : ThreadDel(th))

SpecConcurrent == Init /\ [][NextConcurrent]_vars

\* start_trace and end_trace over a Store that may fail any statement
NextStore ==
    \/ Step(Tick)
    \/ Call(\E o \in Operations : start_trace("X", o))
    \/ Call(\E o \in Operations : start_trace_StoreUnavailable("X", o))
    \/ Call(\E t \in TraceIdArgs, st \in Statuses : end_trace(t, st))
    \/ Call(\E t \in TraceIdArgs, st \in Statuses : end_trace_StoreUnavailable(t, st))

SpecStore == Init /\ [][NextStore]_vars

\* ---- the claims ----
\* the step is a call end_trace(trace_id, ...) by the single caller
EndTraceCall(trace_id) ==
    /\ calls' = calls + 1
    /\ result'.op = "end_trace"
    /\ result'.id = trace_id

\* C1: ending a trace is single-shot. Over any sequence of Recorder calls the
\* row of a trace is hit by at most one UPDATE, the one of the first end_trace
\* on its id, which sets end_time and duration_ms; once end_time is set the
\* row never changes again, and an end_trace on an id whose row was already
\* written is answered not-found and changes neither the row nor the
\* open-trace table.
C1_EndTraceSingleShot ==
    [][\A t \in DOMAIN traces :
        /\ updates'[t] <= 1
        /\ traces[t].end_time # Null => traces'[t] = traces[t]
        /\ (EndTraceCall(t) /\ updates[t] = 0) =>
              /\ result'.outcome = "ok"
              /\ updates'[t] = 1
              /\ traces'[t].end_time = now
              /\ traces'[t].duration_ms = now - traces[t].start_time
        /\ (EndTraceCall(t) /\ updates[t] >= 1) =>
              /\ result'.outcome = "NotFound"
              /\ traces' = traces
              /\ active_traces' = active_traces]_vars

\* a second end_trace on an id that was ended has been answered
C1_Witness ==
    /\ result.op = "end_trace"
    /\ result.outcome = "NotFound"
    /\ result.id \in DOMAIN traces
    /\ traces[result.id].end_time # Null
    /\ traces[result.id].duration_ms # Null

\* C2: end_trace on an id that is not in the open-trace table reports
\* NotFound, raises nothing, and leaves every trace row, every span row and
\* the open-trace table as they were.
C2_EndTraceUnknownIsNotFound ==
    [][\A t \in TraceIdArgs :
        (EndTraceCall(t) /\ t \notin DOMAIN active_traces) =>
              /\ result'.outcome = "NotFound"
              /\ traces' = traces
              /\ spans' = spans
              /\ active_traces' = active_traces]_vars

\* end_trace on an id never handed out, with traces and spans stored
C2_Witness ==
    /\ result.op = "end_trace"
    /\ result.id = UnknownId
    /\ result.outcome = "NotFound"
    /\ active_traces # <<>>
    /\ spans # <<>>

\* C4: the open-trace table holds exactly the ids start_trace returned on
\* which no end_trace has yet succeeded, and every id in it has a trace row
\* whose end_time and duration_ms are still NULL.
C4_OpenTableTracksOpenTraces ==
    /\ DOMAIN active_traces = returned \ closed
    /\ \A t \in DOMAIN active_traces :
        /\ t \in DOMAIN traces
        /\ traces[t].end_time = Null
        /\ traces[t].duration_ms = Null

\* one trace has been closed and removed while another is still open
C4_Witness ==
    /\ closed # {}
    /\ active_traces # <<>>
    /\ \E t \in closed : t \notin DOMAIN active_traces /\ traces[t].end_time # Null

\* C3: two concurrent end_trace calls on one open id make one logical close:
\* in every interleaving one call alone writes the row, the other is answered
\* not-found, and no call fails on the table removal.
C3_ConcurrentEndTraceSerialized ==
    /\ \A t \in DOMAIN traces : updates[t] <= 1
    /\ \A th \in Threads : frame[th].outcome # "KeyError"

\* the last call was analyze on a stored trace
Analyzed == result.op = "analyze_trace" /\ result.id \in DOMAIN traces

\* every span of the trace has been ended
AllSpansEnded(trace_id) == \A s \in SpansOf(trace_id) : spans[s].duration_ms # Null

\* C5: analyze on a trace that is still in progress (duration_ms NULL) runs to
\* its end and reports a db_percentage of zero.
C5_AnalyzeToleratesInProgress ==
    (Analyzed /\ traces[result.id].duration_ms = Null) =>
        /\ result.outcome \notin {"TypeError", "ValueError"}
        /\ result.metrics.db_percentage.num = 0

\* C6: analyze on a stored trace without spans (a closed one, so that the
\* analysis gets as far as the bottleneck) ends with the EmptyTrace outcome
\* and does not take the maximum of the empty row list.
C6_AnalyzeEmptyTrace ==
    (Analyzed /\ traces[result.id].duration_ms # Null /\ SpansOf(result.id) = {}) =>
        /\ result.outcome = "EmptyTrace"
        /\ result.line # 298

DbSpans(trace_id) ==
    {s \in SpansOf(trace_id) : spans[s].db_query # NoQuery /\ spans[s].db_query # ""}

RECURSIVE DurationSum(_)
DurationSum(S) ==
    IF S = {} THEN 0
    ELSE LET s == CHOOSE x \in S : TRUE IN spans[s].duration_ms + DurationSum(S \ {s})

NameBefore(a, b) == a = "X" /\ b = "Y"

\* C9: the rows aggregate returns are sorted by average duration, largest
\* first, and rows of equal average come in ascending order of service name.
C9_AggregateOrder ==
    result.op = "get_service_performance" =>
        \A i, j \in DOMAIN result.rows :
            (/\ i < j
             /\ ~AvgIsNull(result.rows[i].avg_duration)
             /\ ~AvgIsNull(result.rows[j].avg_duration)) =>
                LET a == result.rows[i].avg_duration
                    b == result.rows[j].avg_duration IN
                /\ a.num * b.den >= b.num * a.den
                /\ a.num * b.den = b.num * a.den =>
                      NameBefore(result.rows[i].service_name, result.rows[j].service_name)

\* C10: aggregate returns one row per service name found in the spans, and in
\* each row the count, the average, the maximum and the minimum are taken over
\* one set of spans: all the spans of that service.
C10_AggregateRows ==
    result.op = "get_service_performance" =>
        /\ Len(result.rows) = Cardinality(ServiceNames)
        /\ {result.rows[i].service_name : i \in DOMAIN result.rows} = ServiceNames
        /\ \A i \in DOMAIN result.rows :
              LET row == result.rows[i]
                  S == SpansOfService(row.service_name) IN
              /\ row.span_count = Cardinality(S)
              /\ row.avg_duration.den = row.span_count
              /\ row.avg_duration.num = DurationSum(WithDuration(S))
              /\ \E s \in S : spans[s].duration_ms = row.max_duration
              /\ \E s \in S : spans[s].duration_ms = row.min_duration
              /\ \A s \in S : /\ spans[s].duration_ms <= row.max_duration
                              /\ spans[s].duration_ms >= row.min_duration

\* the step is a call end_span(span_id, ...)
EndSpanCall(span_id) ==
    /\ calls' = calls + 1
    /\ result'.op = "end_span"
    /\ result'.id = span_id

\* C11: end_span on a span id that was never created is a silent no-op: the
\* call returns without an error and every span row, every trace row and the
\* open-trace table are as they were before it.
C11_EndSpanUnknownIsNoOp ==
    [][\A sp \in SpanIdArgs :
        (EndSpanCall(sp) /\ sp \notin DOMAIN spans) =>
              /\ result'.outcome = "ok"
              /\ spans' = spans
              /\ traces' = traces
              /\ active_traces' = active_traces]_vars

\* end_span on an id never handed out, with spans in progress and traces open
C11_Witness ==
    /\ result.op = "end_span"
    /\ result.id = UnknownId
    /\ result.outcome = "ok"
    /\ \E s \in DOMAIN spans : spans[s].end_time = Null
    /\ active_traces # <<>>

\* C12: every trace that was started and ended has end_time >= start_time and
\* duration_ms >= 0, and a trace that was started and not ended has neither
\* end_time nor duration_ms: both are NULL until its end_trace.
C12_TraceTimesOrdered ==
    \A t \in DOMAIN traces :
        IF t \in closed
        THEN /\ traces[t].end_time # Null
             /\ traces[t].end_time >= traces[t].start_time
             /\ traces[t].duration_ms # Null
             /\ traces[t].duration_ms >= 0
        ELSE /\ traces[t].end_time = Null
             /\ traces[t].duration_ms = Null

\* a trace was ended after time had passed while another is still open
C12_Witness ==
    /\ \E t \in closed : /\ traces[t].end_time > traces[t].start_time
                          /\ traces[t].duration_ms > 0
    /\ \E t \in DOMAIN traces : t \notin closed /\ traces[t].end_time = Null

\* C13: every stored span that has a parent_span_id has its parent stored as
\* a span of the same trace, so that the spans of a trace form a forest.
C13_ParentInSameTrace ==
    \A s \in DOMAIN spans :
        spans[s].parent_span_id # Null =>
            /\ spans[s].parent_span_id \in DOMAIN spans
            /\ spans[spans[s].parent_span_id].trace_id = spans[s].trace_id

\* the operations that read or write spans only
SpanOps == {"create_span", "end_span", "analyze_trace", "get_service_performance"}
\* the two reports
ReportOps == {"analyze_trace", "get_service_performance"}

\* C14: trace rows are changed by end_trace only and are never deleted:
\* create_span, end_span, analyze and aggregate leave every trace row and the
\* open-trace table as they were, and analyze and aggregate leave every span
\* row as it was.
C14_TraceRowsFrame ==
    [][/\ DOMAIN traces \subseteq DOMAIN traces'
       /\ \A t \in DOMAIN traces : traces'[t] # traces[t] => result'.op = "end_trace"
       /\ result'.op \in SpanOps =>
              /\ traces' = traces
              /\ active_traces' = active_traces
       /\ result'.op \in ReportOps => spans' = spans]_vars

\* a report has run over closed and open traces with ended spans
C14_Witness ==
    /\ result.op \in ReportOps
    /\ closed # {}
    /\ active_traces # <<>>
    /\ \E s \in DOMAIN spans : spans[s].end_time # Null

\* the step is a call create_span(trace_id, ..., parent_span_id)
CreateSpanCall(trace_id, parent_span_id) ==
    /\ calls' = calls + 1
    /\ result'.op = "create_span"
    /\ result'.trace_id = trace_id
    /\ result'.parent_span_id = parent_span_id

\* the call stored exactly one new span, in progress, with the given linkage
StoredOneSpan(trace_id, parent_span_id) ==
    /\ result'.outcome = "ok"
    /\ result'.id \notin DOMAIN spans
    /\ DOMAIN spans' = DOMAIN spans \cup {result'.id}
    /\ \A s \in DOMAIN spans : spans'[s] = spans[s]
    /\ spans'[result'.id].trace_id = trace_id
    /\ spans'[result'.id].parent_span_id = parent_span_id
    /\ spans'[result'.id].status = "in_progress"
    /\ spans'[result'.id].start_time = now
    /\ spans'[result'.id].end_time = Null

\* C15, as stated: create_span succeeds for any trace_id and any
\* parent_span_id, returning a fresh span id and storing one new span in
\* progress with the given linkage.
C15_CreateSpanAlwaysSucceeds ==
    [][\A t \in TraceIdArgs, p \in ParentArgs :
        CreateSpanCall(t, p) => StoredOneSpan(t, p)]_vars

\* C15, amended: create_span checks neither that the trace is open nor that
\* the parent exists: for any trace_id that has a trace row, open or closed,
\* and any parent_span_id it returns a fresh span id and stores exactly one new
\* span in progress with a NULL end_time and the given linkage; for a trace_id
\* without a trace row the foreign key rejects the INSERT, the call fails and
\* no span is stored.
C15_CreateSpanNeedsTraceRowOnly ==
    [][\A t \in TraceIdArgs, p \in ParentArgs :
        CreateSpanCall(t, p) =>
            IF t \in DOMAIN traces
            THEN StoredOneSpan(t, p)
            ELSE /\ result'.outcome = "ForeignKeyViolation"
                 /\ spans' = spans]_vars

\* a span was created in a closed trace under a parent that is no stored span
C15_Witness ==
    /\ result.op = "create_span"
    /\ result.outcome = "ok"
    /\ result.trace_id \in closed
    /\ result.parent_span_id = UnknownId
    /\ spans[result.id].trace_id = result.trace_id

\* C16: in every reachable state the trace_id of every stored span is the id
\* of a stored trace row: no span is stored for an id without a trace row.
C16_SpanTraceStored ==
    \A s \in DOMAIN spans : spans[s].trace_id \in DOMAIN traces

\* a create_span on an id without a trace row was turned down while spans of
\* a closed trace are stored
C16_Witness ==
    /\ result.op = "create_span"
    /\ result.outcome = "ForeignKeyViolation"
    /\ result.trace_id \notin DOMAIN traces
    /\ \E s \in DOMAIN spans : spans[s].trace_id \in closed

\* C17: analyze on an id that has no trace row reports NotFound and stops
\* there: it loads no spans, computes no metrics and no bottleneck, raises no
\* error, and leaves every row and the open-trace table as they were.
C17_AnalyzeUnknownIsNotFound ==
    [][(result'.op = "analyze_trace" /\ result'.id \notin DOMAIN traces) =>
          /\ result'.outcome = "NotFound"
          /\ result'.rows = <<>>
          /\ (DOMAIN result') \cap {"metrics", "slowest_span"} = {}
          /\ traces' = traces
          /\ spans' = spans
          /\ active_traces' = active_traces]_vars

\* analyze on an id never handed out, with traces and ended spans stored
C17_Witness ==
    /\ result.op = "analyze_trace"
    /\ result.id = UnknownId
    /\ result.outcome = "NotFound"
    /\ traces # <<>>
    /\ \E s \in DOMAIN spans : spans[s].end_time # Null

\* C18: end_span on a stored span sets its end_time to the current instant and
\* its duration_ms to that instant minus the stored start_time, together with
\* the descriptor, the affected count and the status it was given; it changes
\* no other span and never changes start_time, trace_id, parent_span_id,
\* service or operation. Hence every ended span has end_time >= start_time and
\* duration_ms >= 0.
C18_EndSpanWritesOneRow ==
    [][/\ \A sp \in DOMAIN spans : EndSpanCall(sp) =>
            /\ DOMAIN spans' = DOMAIN spans
            /\ \A s \in DOMAIN spans : s # sp => spans'[s] = spans[s]
            /\ spans'[sp] = [spans[sp] EXCEPT
                                !.end_time = now,
                                !.duration_ms = now - spans[sp].start_time,
                                !.db_query = result'.query,
                                !.rows_affected = result'.rows_affected,
                                !.status = result'.status]
       /\ \A s \in DOMAIN spans' : spans'[s].end_time # Null =>
            /\ spans'[s].end_time >= spans'[s].start_time
            /\ spans'[s].duration_ms >= 0]_vars

\* a span was ended after time had passed while another span is in progress
C18_Witness ==
    /\ result.op = "end_span"
    /\ result.id \in DOMAIN spans
    /\ spans[result.id].duration_ms > 0
    /\ spans[result.id].db_query = result.query
    /\ \E s \in DOMAIN spans : s # result.id /\ spans[s].end_time = Null

\* the rows of traces that have not been ended
InProgress(rows) == {t \in DOMAIN rows : rows[t].end_time = Null}

\* C20: a Store failure stays within the call that met it and leaves the
\* open-trace table in step with the Store. When the INSERT of start_trace
\* fails, the error goes to the caller and no id enters the open-trace table;
\* when the UPDATE of end_trace fails, the error goes to the caller and the id
\* stays in the table with the start instant it had, so that an end_trace on
\* the same id, once the Store answers, closes the trace.
C20_StoreFailureScoped ==
    [][/\ (/\ calls' = calls + 1
            /\ result'.op = "start_trace"
            /\ result'.outcome = "StoreUnavailable") =>
              /\ active_traces' = active_traces
              /\ traces' = traces
       /\ \A t \in DOMAIN active_traces :
            /\ (EndTraceCall(t) /\ result'.outcome = "StoreUnavailable") =>
                  /\ t \in DOMAIN active_traces'
                  /\ active_traces' = active_traces
                  /\ traces' = traces
            /\ (EndTraceCall(t) /\ result'.outcome # "StoreUnavailable") =>
                  /\ result'.outcome = "ok"
                  /\ t \notin DOMAIN active_traces'
                  /\ traces'[t].end_time = now
                  /\ traces'[t].duration_ms = now - active_traces[t].start_time
       /\ DOMAIN active_traces' = InProgress(traces')]_vars

\* a trace whose end_trace met a Store error was closed by a later end_trace,
\* with the duration counted from its first start instant
C20_Witness ==
    /\ result.op = "end_trace"
    /\ result.outcome = "ok"
    /\ result.id \in failed
    /\ traces[result.id].end_time # Null
    /\ traces[result.id].duration_ms = now - traces[result.id].start_time
    /\ traces[result.id].duration_ms > 0

\* thread th takes the step
ThreadStep(th) == pc'[th] # pc[th] \/ frame'[th] # frame[th]

\* the trace id the call of thread th works on in the step
StepId(th) == IF pc[th] = "idle" THEN frame'[th].trace_id ELSE frame[th].trace_id

\* thread th is inside end_trace and no other call on its id is under way or
\* has written its row
Solo(th) ==
    /\ pc[th] \in {"read", "update", "del"}
    /\ \A u \in Threads \ {th} : frame[u].trace_id # frame[th].trace_id
    /\ updates[frame[th].trace_id] = IF pc[th] = "del" THEN 1 ELSE 0

\* C19: concurrent start_trace and end_trace calls on different ids neither
\* block nor disturb one another. In every interleaving each call can take
\* its next statement whatever the other calls are doing, and end_trace on an
\* open id gets past its membership test; a step of a call on id A changes no
\* trace row, no table entry and no local of another id or call; and when no
\* other call works on A, end_trace on A reads the start instant of A, writes
\* the row of A from its own duration and status, and removes A from the
\* table, as it does when it runs alone.
C19_DifferentIdsIndependent ==
    [][/\ \A th \in Threads :
            /\ pc[th] = "register" => ENABLED ThreadRegister(th)
            /\ pc[th] = "read" => ENABLED ThreadRead(th)
            /\ pc[th] = "update" => ENABLED ThreadUpdate(th)
            /\ pc[th] = "del" => ENABLED ThreadDel(th)
            /\ pc[th] = "idle" => \A t \in DOMAIN active_traces :
                  ENABLED (ThreadCheck(th, t, "success") /\ pc'[th] = "read")
       /\ \A th \in Threads : ThreadStep(th) =>
            /\ \A u \in Threads \ {th} : pc'[u] = pc[u] /\ frame'[u] = frame[u]
            /\ \A t \in (DOMAIN traces) \ {StepId(th)} : traces'[t] = traces[t]
            /\ DOMAIN traces' \subseteq (DOMAIN traces) \cup {StepId(th)}
            /\ \A t \in (DOMAIN active_traces) \ {StepId(th)} :
                  /\ t \in DOMAIN active_traces'
                  /\ active_traces'[t] = active_traces[t]
            /\ DOMAIN active_traces' \subseteq (DOMAIN active_traces) \cup {StepId(th)}
       /\ \A th \in Threads : (ThreadStep(th) /\ Solo(th)) =>
            LET t == frame[th].trace_id IN
            /\ pc[th] = "read" =>
                  /\ pc'[th] = "update"
                  /\ frame'[th].duration = now - active_traces[t].start_time
            /\ pc[th] = "update" =>
                  traces'[t] = [traces[t] EXCEPT !.end_time = now,
                                                 !.duration_ms = frame[th].duration,
                                                 !.status = frame[th].status]
            /\ pc[th] = "del" =>
                  /\ frame'[th].outcome = "ok"
                  /\ t \notin DOMAIN active_traces'
                  /\ traces'[t] = traces[t]
                  /\ traces'[t].duration_ms = frame[th].duration
                  /\ traces'[t].status = frame[th].status]_vars

\* two end_trace calls on different ids are both between their UPDATE and
\* their removal from the table, each the only writer of its row
C19_Witness ==
    \E th, u \in Threads :
        /\ pc[th] = "del"
        /\ pc[u] = "del"
        /\ frame[th].trace_id # frame[u].trace_id
        /\ updates[frame[th].trace_id] = 1
        /\ updates[frame[u].trace_id] = 1
        /\ frame[th].trace_id \in DOMAIN active_traces
        /\ frame[u].trace_id \in DOMAIN active_traces
====
